---------------------------- MODULE Spec2Model ----------------------------
(***************************************************************************)
(* A model of divi-tool (jgraef/divi): the archive lister                  *)
(* (divi.rs, ArchiveStream), the report fetcher and row normalizer         *)
(* (divi.rs, Api::get_archived, Row::from_raw), the store (store.rs) and   *)
(* the sync loop (main.rs, Args::run).                                     *)
(*                                                                         *)
(* Conventions.  An Option<T> is a sequence of length at most one          *)
(* (<< >> is None, <<x>> is Some(x)).  A Result<T, E> is a record          *)
(* [ok, val, err] with val an Option.  A text is a sequence of             *)
(* one-character strings.  A file is a record [state, data]: "absent",     *)
(* "partial" (created or truncated, its bytes not or not all written) or   *)
(* "full" (all bytes of data written).                                     *)
(***************************************************************************)
EXTENDS Integers, Sequences, FiniteSets, TLC

VARIABLES
    \* the remote site
    listing,          \* the archive: a sequence of pages, each a sequence of URLs
    \* the storage directory
    info_file,        \* <data_dir>/info.json
    rows_files,       \* <data_dir>/<date>.json, one per date
    \* the process running Args::run (Args::Sync)
    pc,               \* where the process is; "done" when run has returned or the
                      \* process was killed, "idle" when there is no process
    check_all,        \* --check-all
    resync_all,       \* --resync-all
    urls_synced,      \* Store.info.urls_synced, in memory
    request_future,   \* ArchiveStream.request_future: the page it will fetch
    urls,             \* ArchiveStream.inner.urls, the buffer (a Vec, popped at its end)
    url,              \* the URL the loop body is working on
    dataset,          \* the DataSet get_archived returned
    result,           \* what run returned: "none" while running, "Ok" or the error
    \* history
    yielded,          \* this run: the URLs the lister has yielded
    fetched,          \* this run: the URLs get_archived was invoked for
    stored,           \* this run: the URLs put_dataset was invoked for
    served,           \* this run: the records of the report get_archived read last
    pages_fetched,    \* this run: the pages whose fetch was started
    open_set,         \* this run: urls_synced as Store::new loaded it
    put_ok,           \* this run: URLs whose put_dataset returned Ok
    put_result,       \* what the last put_dataset of this run returned
    written,          \* this run: URLs whose dataset file was written completely
    snapshot,         \* the directory as the last put_dataset that returned Ok left it
    unchanged,        \* the archive is the one the previous run saw
    prev,             \* how the previous run ended
    ingested,         \* all runs: URLs whose put_dataset returned Ok
    \* the row normalizer, on its own
    raw,              \* a RawRow
    hint,             \* the timestamp hint
    row_result        \* what Row::from_raw returned for them

vars == <<listing, info_file, rows_files, pc, check_all, resync_all, urls_synced,
          request_future, urls, url, dataset, result, yielded, fetched,
          stored, served, pages_fetched, open_set, put_ok, put_result, written,
          snapshot, unchanged, prev, ingested, raw, hint, row_result>>

-----------------------------------------------------------------------------
(* Option and Result *)

None == << >>
Some(x) == <<x>>
Ok(x) == [ok |-> TRUE, val |-> <<x>>, err |-> "none"]
Err(e) == [ok |-> FALSE, val |-> << >>, err |-> e]
Unwrap(r) == r.val[1]
\* Option::or
OrElse(a, b) == IF a # None THEN a ELSE b

RECURSIVE Reverse(_)
Reverse(s) == IF s = << >> THEN << >> ELSE Append(Reverse(Tail(s)), Head(s))

RECURSIVE Flatten(_)
Flatten(ss) == IF ss = << >> THEN << >> ELSE Head(ss) \o Flatten(Tail(ss))

Range(s) == {s[i] : i \in DOMAIN s}

IsPrefix(s, t) == Len(s) <= Len(t) /\ SubSeq(t, 1, Len(s)) = s

\* every sequence over S of length at most n
SeqsUpTo(S, n) == UNION {[1..k -> S] : k \in 0..n}

-----------------------------------------------------------------------------
(* Texts and integer parsing *)

Digits == {"0", "1", "2", "3", "4", "5", "6", "7", "8", "9"}

DigitVal(c) ==
    CASE c = "0" -> 0 [] c = "1" -> 1 [] c = "2" -> 2 [] c = "3" -> 3 [] c = "4" -> 4
      [] c = "5" -> 5 [] c = "6" -> 6 [] c = "7" -> 7 [] c = "8" -> 8 [] c = "9" -> 9

RECURSIVE DecimalValue(_)
DecimalValue(s) ==
    IF s = << >> THEN 0
    ELSE 10 * DecimalValue(SubSeq(s, 1, Len(s) - 1)) + DigitVal(s[Len(s)])

\* str::parse::<usize>() (core::num, from_str_radix for an unsigned type): the empty
\* text, a lone sign, a '-' and every non-digit are errors; one leading '+' is
\* accepted.  The texts of this model have fewer than 10 characters, so the value
\* always fits usize and the overflow error cannot arise.
parse_usize(s) ==
    IF s = << >> THEN Err("ParseInt")
    ELSE IF Len(s) = 1 /\ s[1] \in {"+", "-"} THEN Err("ParseInt")
    ELSE LET digits == IF s[1] = "+" THEN Tail(s) ELSE s
         IN  IF \A i \in DOMAIN digits : digits[i] \in Digits
             THEN Ok(DecimalValue(digits))
             ELSE Err("ParseInt")

\* s.split('.').next(): the text before the first '.', the whole text when there
\* is none.  It is always Some: split yields at least one item.
RECURSIVE FirstPart(_)
FirstPart(s) ==
    IF s = << >> \/ Head(s) = "." THEN << >>
    ELSE <<Head(s)>> \o FirstPart(Tail(s))

\* (a slip: the text is parsed whole, the '.' and what follows it included)
parse_decimal_to_int_whole(s) == parse_usize(s)

\* divi.rs, parse_decimal_to_int.  The ok_or_else branch (InvalidRow) is dead code.
parse_decimal_to_int(s) == parse_usize(FirstPart(s))

-----------------------------------------------------------------------------
(* Dates, timestamps and their texts *)

Pad2(n) == IF n < 10 THEN "0" \o ToString(n) ELSE ToString(n)

\* NaiveDate::format("%Y-%m-%d"), which is also how serde writes a NaiveDate
FormatDate(d) == ToString(d[1]) \o "-" \o Pad2(d[2]) \o "-" \o Pad2(d[3])
FormatTime(t) == Pad2(t[1]) \o ":" \o Pad2(t[2]) \o ":" \o Pad2(t[3])

\* the dates and times of day of the model
Dates == {<<2020, 4, 24>>, <<2020, 4, 25>>}
Times == {<<9, 15, 0>>, <<12, 15, 0>>}
Timestamps == [date : Dates, time : Times]

\* the text of the daten_stand column, "%Y-%m-%d %H:%M:%S"
FormatDatenStand(ts) == FormatDate(ts.date) \o " " \o FormatTime(ts.time)
\* how serde writes a NaiveDateTime
FormatIso(ts) == FormatDate(ts.date) \o "T" \o FormatTime(ts.time)

\* NaiveDateTime::parse_from_str(text, "%Y-%m-%d %H:%M:%S")
parse_from_str(text) ==
    IF \E ts \in Timestamps : FormatDatenStand(ts) = text
    THEN Ok(CHOOSE ts \in Timestamps : FormatDatenStand(ts) = text)
    ELSE Err("Chrono")

\* serde reading a NaiveDateTime and a NaiveDate back
ParseIso(text) ==
    IF \E ts \in Timestamps : FormatIso(ts) = text
    THEN Ok(CHOOSE ts \in Timestamps : FormatIso(ts) = text)
    ELSE Err("Json")
ParseDate(text) ==
    IF \E d \in Dates : FormatDate(d) = text
    THEN Ok(CHOOSE d \in Dates : FormatDate(d) = text)
    ELSE Err("Json")

-----------------------------------------------------------------------------
(* The resource URLs *)

U1 == "/2020-04-24-09-15"
U2 == "/2020-04-24-12-15"
U3 == "/report"
URLs == {U1, U2, U3}

\* divi.rs, timestamp_hint_from_url: the first YYYY-MM-DD-HH-MM of the path, at
\* second 0; None when the path has none.
timestamp_hint_from_url(u) ==
    CASE u = U1 -> Some([date |-> <<2020, 4, 24>>, time |-> <<9, 15, 0>>])
      [] u = U2 -> Some([date |-> <<2020, 4, 24>>, time |-> <<12, 15, 0>>])
      [] OTHER -> None

-----------------------------------------------------------------------------
(* Rows *)

\* a record of the current column layout, and one of the first layout (no
\* gemeindeschluessel, bundesland or daten_stand column)
RawNew ==
    [idx |-> None, bundesland |-> Some(1), gemeindeschluessel |-> Some(<<"0", "1", "0", "0", "1">>),
     kreis |-> None, anzahl_meldebereiche |-> Some(2), faelle_covid_aktuell |-> Some(4),
     faelle_covid_aktuell_invasiv_beatmet |-> Some(1), faelle_covid_aktuell_beatmet |-> None,
     faelle_cobid_aktuell_im_bundesland |-> None, anzahl_standorte |-> 2,
     betten_frei |-> <<"1", "2", ".", "0">>, betten_belegt |-> <<"3">>,
     daten_stand |-> Some(FormatDatenStand([date |-> <<2020, 4, 25>>, time |-> <<9, 15, 0>>])),
     betten_belegt_nur_erwachsen |-> Some(3), betten_frei_nur_erwachsen |-> Some(10)]

RawOld ==
    [idx |-> Some(0), bundesland |-> None, gemeindeschluessel |-> None,
     kreis |-> Some(<<"0", "2", "0", "0", "0">>), anzahl_meldebereiche |-> None,
     faelle_covid_aktuell |-> None,
     faelle_covid_aktuell_invasiv_beatmet |-> None, faelle_covid_aktuell_beatmet |-> Some(2),
     faelle_cobid_aktuell_im_bundesland |-> None, anzahl_standorte |-> 1,
     betten_frei |-> <<"5">>, betten_belegt |-> <<"7", ".", "0">>,
     daten_stand |-> None,
     betten_belegt_nur_erwachsen |-> None, betten_frei_nur_erwachsen |-> None]

\* ags[0..2].parse::<u8>(): slicing a text of fewer than two characters panics
\* (byte index out of range); the texts of the model are ASCII and their values
\* fit u8.
state_from_ags(ags) ==
    IF Len(ags) < 2 THEN Err("Panic")
    ELSE parse_usize(SubSeq(ags, 1, 2))

\* (a slip: the hint of the URL is taken when there is one, the column otherwise)
resolve_timestamp_hint_first(daten_stand, timestamp_hint) ==
    IF timestamp_hint # None THEN Ok(timestamp_hint[1])
    ELSE IF daten_stand # None THEN parse_from_str(daten_stand[1])
    ELSE Err("MissingTimestamp")

\* divi.rs:190-194: the daten_stand column when the record has it, else the hint,
\* else MissingTimestamp
resolve_timestamp(daten_stand, timestamp_hint) ==
    IF daten_stand # None THEN parse_from_str(daten_stand[1])
    ELSE IF timestamp_hint # None THEN Ok(timestamp_hint[1])
    ELSE Err("MissingTimestamp")

\* (a slip: a record with neither column gets the empty key)
resolve_ags_or_default(r) ==
    LET ags == OrElse(r.gemeindeschluessel, r.kreis)
    IN  IF ags = None THEN Ok(<< >>) ELSE Ok(ags[1])

\* divi.rs:196-199: gemeindeschluessel, or else kreis, or else InvalidRow
resolve_ags(r) ==
    LET ags == OrElse(r.gemeindeschluessel, r.kreis)
    IN  IF ags = None THEN Err("InvalidRow") ELSE Ok(ags[1])

\* divi.rs:203-207: bundesland when the record has it, else the first two
\* characters of ags
resolve_state(bundesland, ags) ==
    IF bundesland # None THEN Ok(bundesland[1]) ELSE state_from_ags(ags)

\* divi.rs, Row::from_raw
from_raw(r, timestamp_hint) ==
    LET timestamp == resolve_timestamp(r.daten_stand, timestamp_hint)
        ags == resolve_ags(r)
        cases_ventilated ==
            OrElse(r.faelle_covid_aktuell_invasiv_beatmet, r.faelle_covid_aktuell_beatmet)
        state == resolve_state(r.bundesland, Unwrap(ags))
        beds_available == parse_decimal_to_int(r.betten_frei)
        beds_occupied == parse_decimal_to_int(r.betten_belegt)
    IN  IF ~timestamp.ok THEN Err(timestamp.err)
        ELSE IF ~ags.ok THEN Err(ags.err)
        ELSE IF ~state.ok THEN Err(state.err)
        ELSE IF ~beds_available.ok THEN Err(beds_available.err)
        ELSE IF ~beds_occupied.ok THEN Err(beds_occupied.err)
        ELSE Ok([state |-> Unwrap(state),
                 ags |-> Unwrap(ags),
                 num_report_areas |-> r.anzahl_meldebereiche,
                 cases_current |-> r.faelle_covid_aktuell,
                 cases_ventilated |-> cases_ventilated,
                 num_locations |-> r.anzahl_standorte,
                 beds_available |-> Unwrap(beds_available),
                 beds_occupied |-> Unwrap(beds_occupied),
                 timestamp |-> Unwrap(timestamp),
                 beds_occupied_adults |-> r.betten_belegt_nur_erwachsen,
                 beds_available_adults |-> r.betten_frei_nur_erwachsen])

\* rows.map(from_raw).collect::<Result<Vec<Row>, Error>>(): the first error, or
\* every row
RECURSIVE collect_rows(_, _)
collect_rows(raws, timestamp_hint) ==
    IF raws = << >> THEN Ok(<< >>)
    ELSE LET first == from_raw(Head(raws), timestamp_hint)
         IN  IF ~first.ok THEN Err(first.err)
             ELSE LET rest == collect_rows(Tail(raws), timestamp_hint)
                  IN  IF ~rest.ok THEN Err(rest.err)
                      ELSE Ok(<<Unwrap(first)>> \o Unwrap(rest))

\* (a slip: a file with no record gives a dataset with no row, under a default date)
DataSet_new_or_empty(source_url, rows) ==
    [ok |-> TRUE, err |-> "none",
     val |-> <<[date |-> IF rows = << >> THEN <<2020, 4, 24>> ELSE rows[1].timestamp.date,
                source_url |-> source_url, rows |-> rows]>>]

\* divi.rs, DataSet::new
DataSet_new(source_url, rows) ==
    IF rows = << >> THEN Err("EmptyDataSet")
    ELSE Ok([date |-> rows[1].timestamp.date, source_url |-> source_url, rows |-> rows])

\* divi.rs, Api::get_archived, from the response on: body is the CSV file's
\* records as serde reads them.
get_archived(u, body) ==
    LET rows == collect_rows(body, timestamp_hint_from_url(u))
    IN  IF ~rows.ok THEN Err(rows.err) ELSE DataSet_new(u, Unwrap(rows))

-----------------------------------------------------------------------------
(* The JSON that serde writes and reads *)

OptionalKeys ==
    {"num_report_areas", "cases_current", "cases_ventilated", "beds_occupied_adults",
     "beds_available_adults"}
RequiredKeys ==
    {"state", "ags", "num_locations", "beds_available", "beds_occupied", "timestamp"}

\* Serialize for Row: an object; a None field is skipped (skip_serializing_if).
SerializeRow(r) ==
    [k \in RequiredKeys \cup {k \in OptionalKeys : r[k] # None} |->
        CASE k = "timestamp" -> FormatIso(r.timestamp)
          [] k \in OptionalKeys -> r[k][1]
          [] OTHER -> r[k]]

\* Deserialize for Row: a missing Option field is None.
DeserializeRow(o) ==
    IF ~(RequiredKeys \subseteq DOMAIN o) THEN Err("Json")
    ELSE LET timestamp == ParseIso(o["timestamp"])
             Opt(k) == IF k \in DOMAIN o THEN Some(o[k]) ELSE None
         IN  IF ~timestamp.ok THEN Err("Json")
             ELSE Ok([state |-> o["state"],
                      ags |-> o["ags"],
                      num_report_areas |-> Opt("num_report_areas"),
                      cases_current |-> Opt("cases_current"),
                      cases_ventilated |-> Opt("cases_ventilated"),
                      num_locations |-> o["num_locations"],
                      beds_available |-> o["beds_available"],
                      beds_occupied |-> o["beds_occupied"],
                      timestamp |-> Unwrap(timestamp),
                      beds_occupied_adults |-> Opt("beds_occupied_adults"),
                      beds_available_adults |-> Opt("beds_available_adults")])

\* Serialize and Deserialize for DataSet
SerializeDataSet(d) ==
    [date |-> FormatDate(d.date), source_url |-> d.source_url,
     rows |-> [i \in DOMAIN d.rows |-> SerializeRow(d.rows[i])]]

DeserializeDataSet(o) ==
    LET date == ParseDate(o.date)
        rows == [i \in DOMAIN o.rows |-> DeserializeRow(o.rows[i])]
    IN  IF ~date.ok \/ \E i \in DOMAIN rows : ~rows[i].ok THEN Err("Json")
        ELSE Ok([date |-> Unwrap(date), source_url |-> o.source_url,
                 rows |-> [i \in DOMAIN rows |-> Unwrap(rows[i])]])

\* Serialize and Deserialize for Info
SerializeInfo(set) == [urls_synced |-> set]
DeserializeInfo(o) == o.urls_synced

-----------------------------------------------------------------------------
(* Files *)

Absent == [state |-> "absent", data |-> << >>]
\* created or truncated by open(create, truncate); none or some of its bytes written
Partial == [state |-> "partial", data |-> << >>]
Full(content) == [state |-> "full", data |-> <<content>>]

\* What one write of a whole JSON document through a BufWriter can come to.
\* serde_json::to_writer_pretty does not flush, and the BufWriter it was given is
\* dropped when it returns: the buffered tail of the document is written by the
\* drop, which ignores a failure.
\*   "complete"   every byte was written
\*   "reported"   a write made while serializing failed: to_writer_pretty returns Err
\*   "swallowed"  the write made by the drop failed: to_writer_pretty returns Ok
WriteOutcomes == {"complete", "reported", "swallowed"}

-----------------------------------------------------------------------------
(* The store *)

\* store.rs, Store::rows_path: the file of a date
rows_path(date) == FormatDate(date)
Paths == {rows_path(d) : d \in Dates}

\* store.rs, Store::get_dataset
get_dataset(date) ==
    LET file == rows_files[rows_path(date)]
    IN  IF file.state = "absent" THEN Err("Io")
        ELSE IF file.state = "partial" THEN Err("Json")
        ELSE DeserializeDataSet(file.data[1])

\* store.rs, Store::contains_dataset_source_url
contains_dataset_source_url(source_url) == source_url \in urls_synced

\* (a slip: info.json is not read, every process starts from the default)
LoadInfoDefault == Ok({})

\* store.rs, Store::new, the info it loads: info.json read whole, or the default
LoadInfo ==
    IF info_file.state = "absent" THEN Ok({})
    ELSE IF info_file.state = "partial" THEN Err("Json")
    ELSE Ok(DeserializeInfo(info_file.data[1]))

-----------------------------------------------------------------------------
(* Bounds *)

\* links of the archive, all pages together
MaxLinks == 2
\* links the site puts on one page of the archive
PageSize == 1

\* the pages of an archive that lists the URLs of flat: PageSize links a page,
\* every page but the last with a next-page link.  The first page is always
\* there, if with no link.
RECURSIVE Chunk(_)
Chunk(flat) ==
    IF Len(flat) <= PageSize THEN <<flat>>
    ELSE <<SubSeq(flat, 1, PageSize)>> \o Chunk(SubSeq(flat, PageSize + 1, Len(flat)))

\* the archives; a URL may be listed more than once
Listings == {Chunk(flat) : flat \in SeqsUpTo(URLs, MaxLinks)}

\* The report files of the site, as the records serde reads from them: U1 and U2
\* are reports of the same day.
RemoteFile(u) ==
    CASE u = U1 -> <<RawOld, RawNew>>
      [] u = U2 -> <<RawOld>>
      [] OTHER -> <<RawNew>>

\* What the site may serve in place of a report: a file with no record, and a
\* file of the first layout under a URL that gives no timestamp hint
FaultyBodies == {<< >>, <<RawOld, RawOld>>}

-----------------------------------------------------------------------------
(* The lister: divi.rs, ArchiveStream *)

\* (a slip: the request is sent when the future is made, as a spawned task would)
NewFutureEager(page) == [page |-> page, started |-> TRUE]

\* parse_archive_page(client, next_url, base_url).boxed(): a future, which does
\* nothing (sends no request) until it is polled
NewFuture(page) == [page |-> page, started |-> FALSE]

\* (a slip: the buffer is not reversed, so pop takes the page's last link first)
BufferedUnreversed(found) == found

\* divi.rs:361-362: the buffer holds the page's links reversed, so that pop, which
\* takes the last element, yields them in page order
Buffered(found) == Reverse(found)

\* (a slip: a page with no link is taken as the last page)
NextFutureUnlessEmpty(page) ==
    IF page < Len(listing) /\ listing[page] # << >> THEN Some(NewFuture(page + 1)) ELSE None

\* the future of the page after `page`, when that page has a next-page link
NextFuture(page) == IF page < Len(listing) THEN Some(NewFuture(page + 1)) ELSE None

\* the pages whose request has been sent, once the stream's future is f
Sent(before, f) ==
    IF f # None /\ f[1].started /\ f[1].page \notin Range(before)
    THEN Append(before, f[1].page)
    ELSE before

\* How a run returns.
Returns(r) == pc' = "done" /\ result' = r

\* divi.rs, ArchiveStream::poll_next, one turn of its loop with buffer buf and
\* future f, and what the caller (main.rs, the while let of Args::run) does with
\* Ready: a buffered URL is popped and yielded; else the future is polled, which
\* sends its request and leaves the task pending; else the stream has ended and
\* so has the loop of run.
poll_next(buf, f) ==
    IF buf # << >>
    THEN /\ urls' = SubSeq(buf, 1, Len(buf) - 1)
         /\ request_future' = f
         /\ url' = Some(buf[Len(buf)])
         /\ yielded' = Append(yielded, buf[Len(buf)])
         /\ pages_fetched' = Sent(pages_fetched, f)
         /\ pc' = "checking"
         /\ UNCHANGED result
    ELSE IF f # None
    THEN /\ urls' = buf
         /\ request_future' = Some([f[1] EXCEPT !.started = TRUE])
         /\ pages_fetched' = Sent(pages_fetched, request_future')
         /\ pc' = "page_wait"
         /\ UNCHANGED <<url, yielded, result>>
    ELSE /\ urls' = buf
         /\ request_future' = f
         /\ url' = None
         /\ Returns("Ok")
         /\ UNCHANGED <<yielded, pages_fetched>>

disk == <<info_file, rows_files>>
flags == <<check_all, resync_all>>
rowvars == <<raw, hint, row_result>>
store_history == <<open_set, put_ok, put_result, written, snapshot>>
process == <<check_all, resync_all, urls_synced, request_future, urls, url, dataset, result,
             yielded, fetched, stored, served, pages_fetched, open_set, put_ok,
             put_result, written, snapshot>>
run_history == <<unchanged, prev, ingested>>

\* main.rs:104, archived.next().await, when the stream is polled
Pull ==
    /\ pc = "listing"
    /\ poll_next(urls, request_future)
    /\ UNCHANGED <<listing, disk, flags, urls_synced, dataset, fetched, stored,
                   store_history, run_history, served, rowvars>>

\* The page's response arrives, the task is woken, and poll_next goes on:
\* divi.rs, parse_archive_page, from the response on; ArchiveStream::poll_next
\* lines 359-370 and then its loop again.
PageErrors == {"Http", "ParseError"}

\* (a slip: a page that cannot be fetched or parsed is taken as a page with no
\* link and no next page)
PageErrorSkipped(e) == poll_next(<< >>, None)

\* divi.rs:369 and main.rs:105: the stream yields the error, once, and the ? of
\* run returns it
PageError(e) ==
    /\ Returns(e)
    /\ UNCHANGED <<urls, request_future, url, yielded, pages_fetched>>

PageResponse ==
    /\ pc = "page_wait"
    /\ LET page == request_future[1].page
       IN  \/ \E e \in PageErrors : PageError(e)
           \/ poll_next(Buffered(listing[page]), NextFuture(page))
    /\ UNCHANGED <<listing, disk, flags, urls_synced, dataset, fetched, stored,
                   store_history, run_history, served, rowvars>>

-----------------------------------------------------------------------------
(* The sync run: main.rs, Args::run, Args::Sync *)

\* the storage directory and the known-URL set, for comparing later
Snapshot(info, rows, set) == [info_file |-> info, rows_files |-> rows, urls_synced |-> set]

\* the storage directory before anything was stored
EmptyDisk == Snapshot(Absent, [p \in Paths |-> Absent], {})

\* main.rs:99-102: Store::new (store.rs:27-43), Api::default and
\* Api::list_archived (divi.rs, ArchiveStream::new), for a process started with
\* the flags ca and ra.  io: whether the directory and info.json could be
\* created and opened.
Open(ca, ra, io) ==
    /\ pc = "idle"
    /\ check_all' = ca
    /\ resync_all' = ra
    /\ LET info == IF io THEN LoadInfo ELSE Err("Io")
       IN  IF info.ok
           THEN /\ urls_synced' = Unwrap(info)
                /\ request_future' = Some(NewFuture(1))
                /\ pc' = "listing"
                /\ UNCHANGED result
           ELSE /\ Returns(info.err)
                /\ UNCHANGED <<urls_synced, request_future>>
    /\ open_set' = urls_synced'
    /\ snapshot' = Snapshot(info_file, rows_files, urls_synced')
    /\ UNCHANGED <<listing, disk, urls, url, dataset, yielded, fetched, stored,
                   pages_fetched, put_ok, put_result, written, run_history, served, rowvars>>

\* (a slip: a failed fetch is logged and the loop goes on)
FetchErrorSkipped(e) == pc' = "listing" /\ UNCHANGED result

\* main.rs:116, the ? after get_archived(url).await: the error ends the run
FetchError(e) == Returns(e)

\* (a slip: the URL is taken as known without asking the store)
KnownAlways(u) == TRUE
\* (a slip: the membership test is left out)
KnownNever(u) == FALSE

\* (a slip: resync_all is not looked at)
KnownDespiteResync(u) == contains_dataset_source_url(u)

\* main.rs:107, the condition of the if
Known(u) == ~resync_all /\ contains_dataset_source_url(u)

\* main.rs:107-116: the membership test; a known URL is skipped (check_all) or
\* ends the loop (break); for any other, get_archived sends its request.
Check ==
    /\ pc = "checking"
    /\ IF Known(url[1])
       THEN /\ IF check_all THEN pc' = "listing" /\ UNCHANGED result
                            ELSE Returns("Ok")
            /\ UNCHANGED fetched
       ELSE /\ pc' = "fetching"
            /\ fetched' = Append(fetched, url[1])
            /\ UNCHANGED result
    /\ UNCHANGED <<listing, disk, flags, urls_synced, request_future, urls, url, dataset,
                   yielded, stored, pages_fetched, store_history, run_history, served, rowvars>>

\* The report's response arrives: divi.rs, Api::get_archived, and main.rs:116-117,
\* where an error ends the run and a DataSet is handed to put_dataset.  The
\* request fails ("Http"), or the response holds the records of body.
FetchResponse ==
    /\ pc = "fetching"
    /\ \E body \in {None} \cup {Some(b) : b \in {RemoteFile(url[1])} \cup FaultyBodies} :
          LET r == IF body = None THEN Err("Http") ELSE get_archived(url[1], body[1])
          IN  /\ served' = body
              /\ IF r.ok
                 THEN /\ dataset' = Some(Unwrap(r))
                      /\ stored' = Append(stored, Unwrap(r).source_url)
                      /\ pc' = "put_dataset"
                      /\ UNCHANGED result
                 ELSE /\ FetchError(r.err)
                      /\ UNCHANGED <<dataset, stored>>
    /\ UNCHANGED <<listing, disk, flags, urls_synced, request_future, urls, url,
                   yielded, fetched, pages_fetched, store_history, run_history, rowvars>>

-----------------------------------------------------------------------------
(* store.rs, Store::put_dataset, step by step *)

\* how put_dataset returns to main.rs:117: an error ends the run, Ok goes back
\* to the head of the loop
PutReturns(r) ==
    /\ put_result' = r
    /\ IF r = "Ok" THEN pc' = "listing" /\ UNCHANGED result
                   ELSE Returns(r)

\* The process ends; the directory stays.
Ends(ok, persisted) ==
    /\ pc' = "idle"
    /\ prev' = [ok |-> ok, persisted |-> persisted]
    /\ unchanged' = TRUE
    /\ check_all' = FALSE
    /\ resync_all' = FALSE
    /\ urls_synced' = {}
    /\ request_future' = None
    /\ urls' = << >>
    /\ url' = None
    /\ dataset' = None
    /\ result' = "none"
    /\ yielded' = << >>
    /\ fetched' = << >>
    /\ stored' = << >>
    /\ served' = None
    /\ pages_fetched' = << >>
    /\ open_set' = {}
    /\ put_ok' = {}
    /\ put_result' = "none"
    /\ written' = {}
    /\ snapshot' = EmptyDisk
    /\ UNCHANGED <<listing, ingested, rowvars>>

\* (a slip: the URL is not inserted into the known set)
MarkedNever(outcome) == FALSE

\* store.rs:58-59: the URL is inserted once to_writer_pretty has returned Ok
Marked(outcome) == outcome \in {"complete", "swallowed"}

\* store.rs:56-59: the dataset's file is created or truncated (or the open
\* fails), the dataset is written, and if to_writer_pretty returns Ok the source
\* URL is inserted into the known set.  "killed": the process ends once the file
\* is open.
PutRows ==
    /\ pc = "put_dataset"
    /\ \E outcome \in {"open failed", "killed"} \cup WriteOutcomes :
          LET d == dataset[1]
              path == rows_path(d.date)
          IN  /\ rows_files' =
                    [rows_files EXCEPT ![path] =
                        CASE outcome = "open failed" -> @
                          [] outcome = "complete" -> Full(SerializeDataSet(d))
                          [] OTHER -> Partial]
              /\ IF outcome = "killed"
                 THEN Ends(FALSE, FALSE) /\ UNCHANGED info_file
                 ELSE /\ written' = IF outcome = "complete" THEN written \cup {d.source_url}
                                                            ELSE written
                      /\ urls_synced' = IF Marked(outcome) THEN urls_synced \cup {d.source_url}
                                                           ELSE urls_synced
                      /\ IF outcome \in {"open failed", "reported"}
                         THEN PutReturns("Io")
                         ELSE pc' = "save_info" /\ UNCHANGED <<result, put_result>>
                      /\ UNCHANGED <<listing, info_file, flags, request_future, urls, url,
                                     dataset, yielded, fetched, stored, pages_fetched,
                                     open_set, put_ok, snapshot, run_history, served, rowvars>>

\* store.rs:61-63 and Store::save_info (70-75): info.json is created or
\* truncated (or the open fails), the known set is written, and put_dataset
\* returns.
SaveInfo ==
    /\ pc = "save_info"
    /\ \E outcome \in {"open failed", "killed"} \cup WriteOutcomes :
          /\ info_file' =
                CASE outcome = "open failed" -> info_file
                  [] outcome = "complete" -> Full(SerializeInfo(urls_synced))
                  [] OTHER -> Partial
          /\ IF outcome = "killed"
             THEN Ends(FALSE, FALSE) /\ UNCHANGED rows_files
             ELSE /\ IF outcome \in {"open failed", "reported"}
                     THEN /\ PutReturns("Io")
                          /\ UNCHANGED <<put_ok, snapshot, ingested>>
                     ELSE /\ PutReturns("Ok")
                          /\ put_ok' = put_ok \cup {dataset[1].source_url}
                          /\ ingested' = ingested \cup {dataset[1].source_url}
                          /\ snapshot' = Snapshot(info_file', rows_files, urls_synced)
                  /\ UNCHANGED <<listing, rows_files, flags, urls_synced, request_future,
                                 urls, url, dataset, yielded, fetched, stored,
                                 pages_fetched, open_set, written, unchanged, prev, served,
                                 rowvars>>

-----------------------------------------------------------------------------
(* The environment *)

\* whether info.json holds exactly the known set the process has in memory
Persisted ==
    \/ info_file = Full(SerializeInfo(urls_synced))
    \/ info_file = Absent /\ urls_synced = {}

\* The process exits after run has returned.
Exit ==
    /\ pc = "done"
    /\ Ends(result = "Ok", Persisted)
    /\ UNCHANGED disk

\* The process is killed, or the machine stops, while run is not writing a file:
\* what is on disk stays as it is.
Crash ==
    /\ pc \notin {"idle", "done"}
    /\ Ends(FALSE, FALSE)
    /\ UNCHANGED disk

\* Between two runs the site publishes a report: its link is put first in the
\* archive.
Publish(u) ==
    /\ pc = "idle"
    /\ Len(Flatten(listing)) < MaxLinks
    /\ listing' = Chunk(<<u>> \o Flatten(listing))
    /\ unchanged' = FALSE
    /\ UNCHANGED <<disk, pc, process, prev, ingested, rowvars>>

-----------------------------------------------------------------------------
(* The specification of the sync tool *)

DefaultRaw == RawNew

Init ==
    /\ listing \in Listings
    /\ info_file = Absent
    /\ rows_files = [p \in Paths |-> Absent]
    /\ pc = "idle"
    /\ check_all = FALSE
    /\ resync_all = FALSE
    /\ urls_synced = {}
    /\ request_future = None
    /\ urls = << >>
    /\ url = None
    /\ dataset = None
    /\ result = "none"
    /\ yielded = << >>
    /\ fetched = << >>
    /\ stored = << >>
    /\ served = None
    /\ pages_fetched = << >>
    /\ open_set = {}
    /\ put_ok = {}
    /\ put_result = "none"
    /\ written = {}
    /\ snapshot = EmptyDisk
    /\ unchanged = TRUE
    /\ prev = [ok |-> FALSE, persisted |-> FALSE]
    /\ ingested = {}
    /\ raw = DefaultRaw
    /\ hint = None
    /\ row_result = Err("none")

Next ==
    \/ \E ca \in BOOLEAN, ra \in BOOLEAN, io \in BOOLEAN : Open(ca, ra, io)
    \/ Pull
    \/ PageResponse
    \/ Check
    \/ FetchResponse
    \/ PutRows
    \/ SaveInfo
    \/ Crash
    \/ Exit
    \/ \E u \in URLs : Publish(u)

Spec == Init /\ [][Next]_vars

\* The sync tool run again and again, never with resync-all, against an archive
\* that stays as it is
NextSameArchive ==
    \/ \E ca \in BOOLEAN, io \in BOOLEAN : Open(ca, FALSE, io)
    \/ Pull
    \/ PageResponse
    \/ Check
    \/ FetchResponse
    \/ PutRows
    \/ SaveInfo
    \/ Crash
    \/ Exit

SpecSameArchive == Init /\ [][NextSameArchive]_vars

-----------------------------------------------------------------------------
(* The lister on its own, under a consumer that only pulls *)

\* pages and links of an archive given to the lister
ListerPages == 2
ListerLinks == 5

\* the ways to lay the links of flat out on 1..n pages; a page may hold no link
RECURSIVE Splits(_, _)
Splits(flat, n) ==
    IF n <= 1 THEN {<<flat>>}
    ELSE {<<flat>>} \cup
         UNION {{<<SubSeq(flat, 1, k)>> \o rest :
                     rest \in Splits(SubSeq(flat, k + 1, Len(flat)), n - 1)} :
                k \in 0..Len(flat)}

\* the archives: 1..ListerPages pages, every page but the last with a next-page
\* link, at most ListerLinks links together
ListerListings == UNION {Splits(flat, ListerPages) : flat \in SeqsUpTo(URLs, ListerLinks)}

\* the consumer takes the URL and goes back to pull
Consume ==
    /\ pc = "checking"
    /\ pc' = "listing"
    /\ UNCHANGED <<listing, disk, flags, urls_synced, request_future, urls, url, dataset,
                   result, yielded, fetched, stored, pages_fetched, store_history,
                   run_history, served, rowvars>>

InitLister ==
    /\ listing \in ListerListings
    /\ info_file = Absent
    /\ rows_files = [p \in Paths |-> Absent]
    /\ pc = "listing"
    /\ check_all = FALSE
    /\ resync_all = FALSE
    /\ urls_synced = {}
    /\ request_future = Some(NewFuture(1))
    /\ urls = << >>
    /\ url = None
    /\ dataset = None
    /\ result = "none"
    /\ yielded = << >>
    /\ fetched = << >>
    /\ stored = << >>
    /\ served = None
    /\ pages_fetched = << >>
    /\ open_set = {}
    /\ put_ok = {}
    /\ put_result = "none"
    /\ written = {}
    /\ snapshot = EmptyDisk
    /\ unchanged = TRUE
    /\ prev = [ok |-> FALSE, persisted |-> FALSE]
    /\ ingested = {}
    /\ raw = DefaultRaw
    /\ hint = None
    /\ row_result = Err("none")

NextLister == Pull \/ PageResponse \/ Consume

SpecLister == InitLister /\ [][NextLister]_vars

\* The consumer keeps pulling (the while let of run awaits the stream again and
\* again) and every request sent is answered.
SpecListerFair == SpecLister /\ WF_vars(NextLister)

-----------------------------------------------------------------------------
(* The row normalizer on its own *)

\* characters of a bed count
MaxTextLen == 5

Chars == {"0", "1", "2", "5", ".", "g", "+"}
Texts == SeqsUpTo(Chars, MaxTextLen)

\* the columns of a bed count
BedColumns == {"betten_frei", "betten_belegt"}

NotNormalized == Err("none")

\* divi.rs:265, Row::from_raw(r?, &timestamp_hint)
Normalize ==
    /\ row_result = NotNormalized
    /\ row_result' = from_raw(raw, hint)
    /\ UNCHANGED <<listing, disk, pc, process, run_history, raw, hint>>

InitParse ==
    /\ listing = <<<< >>>>
    /\ info_file = Absent
    /\ rows_files = [p \in Paths |-> Absent]
    /\ pc = "idle"
    /\ check_all = FALSE
    /\ resync_all = FALSE
    /\ urls_synced = {}
    /\ request_future = None
    /\ urls = << >>
    /\ url = None
    /\ dataset = None
    /\ result = "none"
    /\ yielded = << >>
    /\ fetched = << >>
    /\ stored = << >>
    /\ served = None
    /\ pages_fetched = << >>
    /\ open_set = {}
    /\ put_ok = {}
    /\ put_result = "none"
    /\ written = {}
    /\ snapshot = EmptyDisk
    /\ unchanged = TRUE
    /\ prev = [ok |-> FALSE, persisted |-> FALSE]
    /\ ingested = {}
    \* a record of the current layout with any text as one of its bed counts
    /\ \E column \in BedColumns, t \in Texts : raw = [RawNew EXCEPT ![column] = t]
    /\ hint = None
    /\ row_result = NotNormalized

NextParse == Normalize

SpecParse == InitParse /\ [][NextParse]_vars

-----------------------------------------------------------------------------
(* The row normalizer over the records' region keys, codes and timestamps *)

\* region keys: of five and of two digits, with a sign, with a letter first or
\* second, of one character and of none
KeyTexts ==
    {<<"0", "1", "0", "0", "1">>, <<"1", "6">>, <<"+", "7", "1">>, <<"a", "1", "0">>,
     <<"1", "g">>, <<"5">>, << >>}
OptionalKeyTexts == {None} \cup {Some(k) : k \in KeyTexts}

\* a daten_stand text that is not in the format
MalformedStamp == "24.04.2020 09:15"
\* the daten_stand column: not there, a timestamp in the format, or malformed
StampTexts == {None, Some(MalformedStamp)} \cup {Some(FormatDatenStand(ts)) : ts \in Timestamps}

InitRow ==
    /\ listing = <<<< >>>>
    /\ info_file = Absent
    /\ rows_files = [p \in Paths |-> Absent]
    /\ pc = "idle"
    /\ check_all = FALSE
    /\ resync_all = FALSE
    /\ urls_synced = {}
    /\ request_future = None
    /\ urls = << >>
    /\ url = None
    /\ dataset = None
    /\ result = "none"
    /\ yielded = << >>
    /\ fetched = << >>
    /\ stored = << >>
    /\ served = None
    /\ pages_fetched = << >>
    /\ open_set = {}
    /\ put_ok = {}
    /\ put_result = "none"
    /\ written = {}
    /\ snapshot = EmptyDisk
    /\ unchanged = TRUE
    /\ prev = [ok |-> FALSE, persisted |-> FALSE]
    /\ ingested = {}
    /\ \E g \in OptionalKeyTexts, k \in OptionalKeyTexts, b \in {None, Some(1), Some(16)},
          d \in StampTexts, f \in {<<"1", "2", ".", "0">>, <<"g">>} :
          raw = [RawNew EXCEPT !.gemeindeschluessel = g, !.kreis = k, !.bundesland = b,
                               !.daten_stand = d, !.betten_frei = f]
    /\ hint \in {None} \cup {Some(ts) : ts \in Timestamps}
    /\ row_result = NotNormalized

NextRow == Normalize

SpecRow == InitRow /\ [][NextRow]_vars

-----------------------------------------------------------------------------
(* Claims *)

Running == pc # "idle"
\* Store::new returned a store: the run came to its loop
Opened == Running /\ (request_future # None \/ pages_fetched # << >>)
StopAtFirstKnown == Running /\ ~check_all /\ ~resync_all
CheckAll == Running /\ check_all /\ ~resync_all
\* run returned Ok out of its loop by break, at url
Halted == pc = "done" /\ result = "Ok" /\ url # None
\* run returned Ok because the stream had ended
Exhausted == pc = "done" /\ result = "Ok" /\ url = None /\ Opened

\* The i-th URL yielded was in the ledger when it was yielded: it was there when
\* the store was opened, or was ingested earlier in this run.
InLedgerWhenYielded(i) ==
    yielded[i] \in open_set \cup Range(SubSeq(yielded, 1, i - 1))

\* the URLs of seq that are not in known and are not repeated, in order
RECURSIVE FirstUnknowns(_, _)
FirstUnknowns(seq, known) ==
    IF seq = << >> THEN << >>
    ELSE IF Head(seq) \in known THEN FirstUnknowns(Tail(seq), known)
    ELSE <<Head(seq)>> \o FirstUnknowns(Tail(seq), known \cup {Head(seq)})

\* the URLs yielded that the loop body has dealt with or is past the test of
Checked == IF pc = "checking" THEN SubSeq(yielded, 1, Len(yielded) - 1) ELSE yielded

\* C1: in a run with neither check-all nor resync-all, the first URL yielded that
\* is already in the ledger ends the run with Ok: nothing is yielded after it,
\* and get_archived was invoked for exactly the URLs yielded before it, so not
\* for it and not for any URL of the archive after it.
C1_StopAtFirstKnown ==
    StopAtFirstKnown =>
        /\ pc = "checking" =>
              (contains_dataset_source_url(url[1]) <=> InLedgerWhenYielded(Len(yielded)))
        /\ \A i \in DOMAIN yielded :
              InLedgerWhenYielded(i) =>
                  /\ i = Len(yielded)
                  /\ pc \in {"checking", "done"}
                  /\ pc = "done" => result = "Ok"
                  /\ fetched = SubSeq(yielded, 1, i - 1)

\* a run that halted at a known URL with an unknown URL listed after it
C1_Witness ==
    /\ StopAtFirstKnown /\ Halted
    /\ url[1] \in open_set
    /\ Len(yielded) < Len(Flatten(listing))
    /\ Flatten(listing)[Len(yielded) + 1] \notin urls_synced
    /\ fetched = << >>

\* C2: in a run with check-all and without resync-all, get_archived is invoked
\* for exactly the URLs that are not in the ledger when they are checked, in the
\* order of the archive, a known URL is skipped and the loop goes on, and a run
\* that returns Ok has checked every URL of the archive.
C2_CheckAllFetchesUnknown ==
    CheckAll =>
        /\ pc = "checking" =>
              (contains_dataset_source_url(url[1]) <=> InLedgerWhenYielded(Len(yielded)))
        /\ fetched = FirstUnknowns(Checked, open_set)
        /\ (pc = "done" /\ result = "Ok") => (url = None /\ yielded = Flatten(listing))

\* a check-all run that skipped a known URL, fetched the unknown URL after it
\* and returned Ok
C2_Witness ==
    /\ CheckAll /\ Exhausted
    /\ Len(yielded) = 2
    /\ yielded[1] \in open_set
    /\ fetched = <<yielded[2]>>

\* C3: a URL enters info.json only after its dataset's file was written
\* completely, and put_dataset returns Ok only after both files were.
C3_DatasetBeforeIndex ==
    Opened =>
        /\ info_file.state = "full" =>
              DeserializeInfo(info_file.data[1]) \ open_set \subseteq written
        /\ put_ok \subseteq written
        /\ (put_result = "Ok" /\ pc = "listing") => info_file = Full(SerializeInfo(urls_synced))

\* C4: a run with neither check-all nor resync-all, started after a run that
\* returned Ok and left the known set it had in info.json, against the same
\* archive, invokes neither get_archived nor put_dataset: the first URL yielded
\* is in the set it loaded, and the run returns Ok there.
C4_RerunFetchesNothing ==
    (StopAtFirstKnown /\ prev.ok /\ prev.persisted /\ unchanged) =>
        /\ fetched = << >>
        /\ stored = << >>
        /\ yielded # << >> =>
              /\ yielded = <<Flatten(listing)[1]>>
              /\ yielded[1] \in open_set
              /\ pc \in {"checking", "done"}
              /\ pc = "done" => result = "Ok"

\* such a second run, halted at the first URL of the archive
C4_Witness ==
    /\ StopAtFirstKnown /\ prev.ok /\ prev.persisted /\ unchanged
    /\ Halted
    /\ yielded = <<Flatten(listing)[1]>>
    /\ fetched = << >>

\* C5: outside put_dataset, a URL that was not in the ledger when the store was
\* opened is in the known set only if a put_dataset of it has returned Ok.
C5_KnownOnlyAfterPut ==
    (Opened /\ pc # "save_info") => urls_synced \subseteq open_set \cup put_ok

\* C6: right after put_dataset(d) has returned Ok, get_dataset(d.date) returns d.
C6_PutThenGet ==
    (Opened /\ pc = "listing" /\ put_result = "Ok") =>
        get_dataset(dataset[1].date) = Ok(dataset[1])

\* C7: the lister yields the links of the archive page by page, each page's in
\* page order, each once; when it signals the end it has yielded them all.
C7_YieldsInPageOrder ==
    /\ IsPrefix(yielded, Flatten(listing))
    /\ Exhausted => yielded = Flatten(listing)
    /\ pc = "checking" => url = Some(yielded[Len(yielded)])

\* the archive of 3 and 2 links, listed to its end
C7_Witness ==
    /\ Len(listing) = 2 /\ Len(listing[1]) = 3 /\ Len(listing[2]) = 2
    /\ Cardinality(Range(listing[1])) = 3
    /\ Exhausted
    /\ Len(yielded) = 5

\* whether the request of the stream's future has been sent and not answered
PageInFlight ==
    pc \notin {"idle", "done"} /\ request_future # None /\ request_future[1].started
ResourceInFlight == pc = "fetching"
Outstanding == (IF PageInFlight THEN 1 ELSE 0) + (IF ResourceInFlight THEN 1 ELSE 0)

\* the links of the pages before page n
RECURSIVE LinksBefore(_)
LinksBefore(n) == IF n <= 1 THEN 0 ELSE LinksBefore(n - 1) + Len(listing[n - 1])

FetchPending == Len(fetched) # Len(stored)

\* C9: a failed get_archived ends the run with its error: the loop does not go
\* on, and the known set, info.json and every dataset file are as the last
\* put_dataset that returned Ok left them (as Store::new found them, if none did).
C9_FetchErrorEndsRun ==
    (Running /\ FetchPending) =>
        /\ Len(fetched) = Len(stored) + 1
        /\ pc \in {"fetching", "done"}
        /\ url = Some(fetched[Len(fetched)])
        /\ urls_synced = snapshot.urls_synced
        /\ info_file = snapshot.info_file
        /\ rows_files = snapshot.rows_files
        /\ pc = "done" =>
              /\ result \in {"Http", "EmptyDataSet", "MissingTimestamp"}
              /\ ~ENABLED (Pull \/ PageResponse \/ Check \/ FetchResponse \/ PutRows \/ SaveInfo)

\* a run that stored one report and failed to fetch the next
C9_Witness ==
    /\ pc = "done" /\ FetchPending
    /\ put_ok # {}
    /\ url[1] \notin urls_synced
    /\ rows_files # EmptyDisk.rows_files

Normalized == row_result # NotNormalized

\* t has no '.', or its first '.' is at k + 1: its first k characters are the
\* text before the first '.'
IntegerPartLen(t, k) ==
    /\ k \in 0..Len(t)
    /\ \A i \in 1..k : t[i] # "."
    /\ k < Len(t) => t[k + 1] = "."

\* a non-negative decimal integer, as str::parse reads it
IsDecimal(t) ==
    /\ t # << >>
    /\ \A i \in DOMAIN t : t[i] \in Digits \/ (i = 1 /\ t[i] = "+" /\ Len(t) > 1)

\* the text before the first '.' of t is a non-negative decimal integer
IntegerPartIsDecimal(t) ==
    \E k \in 0..Len(t) : IntegerPartLen(t, k) /\ IsDecimal(SubSeq(t, 1, k))

\* the bed count the row got from a column
BedsOf(row, column) ==
    IF column = "betten_frei" THEN row.beds_available ELSE row.beds_occupied

NoRegionKey == raw.gemeindeschluessel = None /\ raw.kreis = None

\* the daten_stand column is there and is a timestamp in the format
StampWellFormed ==
    raw.daten_stand # None /\ \E ts \in Timestamps : raw.daten_stand[1] = FormatDatenStand(ts)

\* a timestamp can be had for the record: from its column, or from the hint when
\* it has no such column
TimestampResolves == StampWellFormed \/ (raw.daten_stand = None /\ hint # None)

\* C11 as stated: a record with no region key fails with InvalidRow, whatever
\* its timestamp column and the hint are.
C11_NoKeyIsInvalidRow ==
    (Normalized /\ NoRegionKey) => row_result = Err("InvalidRow")

\* C11, amended: a record with no region key always fails; with InvalidRow when a
\* timestamp can be had for it, whatever its other columns are; when none can,
\* the timestamp's error comes first: MissingTimestamp (no column, no hint) or
\* the date parser's error (a malformed column).
C11_NoKeyFails ==
    (Normalized /\ NoRegionKey) =>
        /\ ~row_result.ok
        /\ TimestampResolves => row_result.err = "InvalidRow"
        /\ (raw.daten_stand = None /\ hint = None) => row_result.err = "MissingTimestamp"
        /\ (raw.daten_stand # None /\ ~StampWellFormed) => row_result.err = "Chrono"

\* a record with no region key, no timestamp column and a bed count that is no
\* number, normalized with a hint: InvalidRow
C11_Witness ==
    /\ Normalized /\ NoRegionKey
    /\ raw.daten_stand = None /\ hint # None
    /\ raw.betten_frei = <<"g">>
    /\ row_result = Err("InvalidRow")

TimestampErrors == {"MissingTimestamp", "Chrono"}

\* C12: a record with a daten_stand column gets that column's timestamp and the
\* hint is not looked at (a malformed column is the date parser's error, also
\* when there is a hint); a record with no such column and a hint gets the
\* hint's date and time; a record with neither fails with MissingTimestamp.
C12_TimestampResolution ==
    Normalized =>
        /\ \A ts \in Timestamps :
              raw.daten_stand = Some(FormatDatenStand(ts)) =>
                  IF row_result.ok THEN Unwrap(row_result).timestamp = ts
                  ELSE row_result.err \notin TimestampErrors
        /\ (raw.daten_stand # None /\ ~StampWellFormed) => row_result = Err("Chrono")
        /\ (raw.daten_stand = None /\ hint # None) =>
              IF row_result.ok THEN Unwrap(row_result).timestamp = hint[1]
              ELSE row_result.err \notin TimestampErrors
        /\ (raw.daten_stand = None /\ hint = None) => row_result = Err("MissingTimestamp")

\* a record with a daten_stand column, normalized with a hint of another day:
\* the row has the column's timestamp
C12_Witness ==
    /\ Normalized /\ row_result.ok
    /\ StampWellFormed /\ hint # None
    /\ FormatDatenStand(hint[1]) # raw.daten_stand[1]
    /\ hint[1].date # Unwrap(row_result).timestamp.date
    /\ FormatDatenStand(Unwrap(row_result).timestamp) = raw.daten_stand[1]

ResyncAll == Running /\ resync_all

\* C13: in a run with resync-all, whatever check-all is, get_archived is invoked
\* for every URL the lister yields, known or not, in the order of the archive,
\* and put_dataset for every one it returned a dataset for; the run never
\* returns Ok at a URL, only at the end of the archive, with every URL of it
\* fetched and put.
C13_ResyncAllFetchesAll ==
    ResyncAll =>
        /\ IsPrefix(yielded, Flatten(listing))
        /\ fetched = Checked
        /\ IsPrefix(stored, fetched)
        /\ Len(fetched) <= Len(stored) + 1
        /\ ~Halted
        /\ (pc = "done" /\ result = "Ok") =>
              (yielded = Flatten(listing) /\ fetched = yielded /\ stored = yielded)

\* a resync-all run over an archive of two URLs, the first of them known when the
\* store was opened, that fetched and put both
C13_Witness ==
    /\ ResyncAll /\ Exhausted
    /\ Len(yielded) = 2
    /\ yielded[1] \in open_set
    /\ stored = yielded
    /\ put_ok = Range(yielded)

\* the last report get_archived read had no record
ServedEmpty == served = Some(<< >>)

\* the first record of the last report read, normalized with the hint of the URL
\* it was fetched from
FirstRowServed == from_raw(served[1][1], timestamp_hint_from_url(fetched[Len(fetched)]))

\* C14: a report with no record gives EmptyDataSet: the run ends with it,
\* put_dataset is not invoked for the report, and the known set and the
\* directory stay as they were.  Whenever get_archived has returned a dataset,
\* the report had a record, and the dataset has its URL and the date of its first
\* row's timestamp; a report with records never gives EmptyDataSet.
C14_EmptyDataSet ==
    Running =>
        /\ ServedEmpty =>
              /\ pc = "done" /\ result = "EmptyDataSet"
              /\ FetchPending
              /\ urls_synced = snapshot.urls_synced
              /\ info_file = snapshot.info_file
              /\ rows_files = snapshot.rows_files
        /\ (fetched # << >> /\ ~FetchPending) =>
              /\ served # None /\ served[1] # << >>
              /\ dataset # None
              /\ dataset[1].rows # << >>
              /\ dataset[1].rows[1] = Unwrap(FirstRowServed)
              /\ dataset[1].date = Unwrap(FirstRowServed).timestamp.date
              /\ dataset[1].source_url = fetched[Len(fetched)]
        /\ (served # None /\ served[1] # << >>) => result # "EmptyDataSet"

\* a run that stored one report and then read a report with no record
C14_Witness ==
    /\ pc = "done" /\ ServedEmpty
    /\ result = "EmptyDataSet"
    /\ put_ok # {}
    /\ fetched[Len(fetched)] \notin urls_synced

\* the URLs the archive lists after those yielded
ListedLater ==
    {Flatten(listing)[j] : j \in (Len(yielded) + 1)..Len(Flatten(listing))}

\* C15: when a run with neither check-all nor resync-all returns Ok at a known
\* URL, every URL the archive lists after it is in the known set; and every run
\* without resync-all that returns Ok leaves every URL of the archive in it.
C15_HaltImpliesRestKnown ==
    /\ (StopAtFirstKnown /\ Halted) => ListedLater \subseteq urls_synced
    /\ (Running /\ Opened /\ pc = "done" /\ result = "Ok") =>
          Range(Flatten(listing)) \subseteq urls_synced

\* run has returned with the request of a page sent and its page not taken: the
\* page's fetch or parse failed
PageFailed == pc = "done" /\ request_future # None /\ request_future[1].started

\* C16: when a page cannot be fetched or parsed, the run returns that error: the
\* stream has yielded the links of the pages before it and none of it or of a
\* later page, get_archived and put_dataset are not invoked again, and nothing
\* more is pulled.  The stream ends without an error only with every page
\* fetched and every link yielded.
C16_PageErrorAborts ==
    Running =>
        /\ PageFailed =>
              /\ result \in PageErrors
              /\ pages_fetched # << >>
              /\ pages_fetched[Len(pages_fetched)] = request_future[1].page
              /\ Len(yielded) = LinksBefore(request_future[1].page)
              /\ yielded = SubSeq(Flatten(listing), 1, Len(yielded))
              /\ urls = << >>
              /\ ~FetchPending
              /\ ~ENABLED (Pull \/ PageResponse \/ Check \/ FetchResponse \/ PutRows \/ SaveInfo)
        /\ Exhausted =>
              /\ request_future = None
              /\ Len(pages_fetched) = Len(listing)
              /\ Len(yielded) = Len(Flatten(listing))

\* a run that stored the report of page 1 and could not get page 2
C16_Witness ==
    /\ PageFailed
    /\ Len(pages_fetched) = 2
    /\ put_ok # {}
    /\ listing[2] # << >>
    /\ Len(yielded) = Len(listing[1])

\* C17: under a consumer that keeps pulling, the stream of an archive whose pages
\* are all fetched and parsed eventually signals its end; and it signals the end
\* only with its buffer empty, no future left and every page of the chain
\* fetched, a page with no link and a next-page link included: then every link
\* was yielded.
C17_EndOfSequence ==
    /\ [](Exhausted =>
            /\ urls = << >>
            /\ request_future = None
            /\ pages_fetched = [k \in 1..Len(listing) |-> k]
            /\ yielded = Flatten(listing))
    /\ ([](result \notin PageErrors)) => <>Exhausted

\* the stream of an archive whose first page has no link and a next-page link has
\* gone on to the second page, yielded its links and signalled the end
C17_Witness ==
    /\ Exhausted
    /\ Len(listing) = 2
    /\ listing[1] = << >>
    /\ listing[2] # << >>
    /\ yielded = listing[2]

\* the store has the dataset of u: get_dataset of some date returns a dataset
\* whose source URL is u
Retrievable(u) ==
    \E d \in Dates : get_dataset(d).ok /\ Unwrap(get_dataset(d)).source_url = u

\* the store was opened with no known URL, and every put_dataset since has
\* written its dataset's file whole and returned Ok
OnlySuccessfulPuts ==
    /\ Opened /\ pc = "listing"
    /\ open_set = {}
    /\ urls_synced = put_ok
    /\ put_ok \subseteq written

\* C18: after any sequence of put_dataset calls that all succeeded, the dataset
\* of every URL in the known set can be had from the store.
C18_KnownIsRetrievable ==
    OnlySuccessfulPuts => \A u \in urls_synced : Retrievable(u)

\* the region key of the record: gemeindeschluessel, or else kreis
RegionKey == IF raw.gemeindeschluessel # None THEN raw.gemeindeschluessel[1] ELSE raw.kreis[1]

\* normalization came to the region code: a timestamp and a region key were had
CodeResolved == Normalized /\ TimestampResolves /\ ~NoRegionKey

\* C19: a record with the bundesland column gets that code; any other gets the
\* integer of the first two characters of its region key, and when these are no
\* integer, or the key has fewer than two characters, normalization fails
\* with the integer parser's error and with nothing else.
C19_RegionCode ==
    CodeResolved =>
        /\ raw.bundesland # None =>
              (row_result.ok => Unwrap(row_result).state = raw.bundesland[1])
        /\ raw.bundesland = None =>
              IF Len(RegionKey) >= 2 /\ IsDecimal(SubSeq(RegionKey, 1, 2))
              THEN /\ row_result.ok => Unwrap(row_result).ags = RegionKey
                   /\ (row_result.ok /\ RegionKey[1] \in Digits) =>
                         Unwrap(row_result).state = 10 * DigitVal(RegionKey[1]) + DigitVal(RegionKey[2])
                   /\ ~row_result.ok => row_result.err = "ParseInt"
              ELSE row_result = Err("ParseInt")

\* C20: in a run without resync-all, get_archived is never invoked, and so
\* put_dataset never either, for a URL whose put_dataset has returned Ok before,
\* in this run or in a run of an earlier process on the same directory, however
\* often the archive lists the URL.
C20_PersistedAtMostOnce ==
    [][/\ (~resync_all' /\ fetched' # fetched /\ fetched' # << >>) =>
              fetched'[Len(fetched')] \notin ingested
       /\ (~resync_all' /\ stored' # stored /\ stored' # << >>) =>
              stored'[Len(stored')] \notin ingested]_vars

\* a check-all run over an archive that lists twice a URL stored by an earlier
\* process: it came to the end and fetched nothing
C20_Witness ==
    /\ CheckAll /\ Exhausted
    /\ Len(yielded) = 2
    /\ yielded[1] = yielded[2]
    /\ yielded[1] \in ingested \ put_ok
    /\ fetched = << >>
    /\ prev.ok

=============================================================================
